---- MODULE Spec2Model ----
(***************************************************************************)
(* A model of src/core-js-dates-tasks.js: date helpers built on the        *)
(* JavaScript Date object.                                                 *)
(*                                                                         *)
(* A time value (what Date.prototype.getTime returns) is far larger than   *)
(* the integers TLC computes with, so it is kept in mixed radix as the     *)
(* record [day, ms]: whole days since 1970-01-01 and milliseconds within   *)
(* the day, 0 .. msPerDay - 1.  The local time zone is taken to be a zone  *)
(* without daylight saving whose offset is zero, so the local getters      *)
(* (getDay, getDate, getMonth, getFullYear, getHours ...) and the UTC ones *)
(* read the same fields.                                                   *)
(***************************************************************************)
EXTENDS Integers, Sequences, FiniteSets, TLC

(***************************************************************************)
(* The Date object's calendar arithmetic (ECMAScript, "Day Number and Time *)
(* within Day", "Year Number", "Month Number", "Date Number", MakeDay).    *)
(***************************************************************************)
msPerSecond == 1000
msPerMinute == 60 * msPerSecond
msPerHour == 60 * msPerMinute
millisecondsInOneDay == 24 * 60 * 60 * 1000

DaysInYear(y) ==
  IF y % 4 # 0 THEN 365
  ELSE IF y % 100 # 0 THEN 366
  ELSE IF y % 400 # 0 THEN 365
  ELSE 366

DayFromYear(y) ==
  365 * (y - 1970) + ((y - 1969) \div 4) - ((y - 1901) \div 100)
    + ((y - 1601) \div 400)

InLeapYear(y) == IF DaysInYear(y) = 366 THEN 1 ELSE 0

\* Days of the year that precede month index m (0 = January .. 11 = December).
DaysBeforeMonth(m, leap) ==
  CASE m = 0 -> 0
    [] m = 1 -> 31
    [] m = 2 -> 59 + leap
    [] m = 3 -> 90 + leap
    [] m = 4 -> 120 + leap
    [] m = 5 -> 151 + leap
    [] m = 6 -> 181 + leap
    [] m = 7 -> 212 + leap
    [] m = 8 -> 243 + leap
    [] m = 9 -> 273 + leap
    [] m = 10 -> 304 + leap
    [] m = 11 -> 334 + leap
    [] m = 12 -> 365 + leap

RECURSIVE YearUp(_, _)
YearUp(y, day) == IF DayFromYear(y + 1) <= day THEN YearUp(y + 1, day) ELSE y

\* The year holding day number `day`.
YearFromDay(day) ==
  YearUp(1970 + (IF day >= 0 THEN day \div 366 ELSE day \div 365), day)

DayWithinYear(day) == day - DayFromYear(YearFromDay(day))

\* The month index, 0 .. 11, holding day number `day`.
MonthFromDay(day) ==
  LET leap == InLeapYear(YearFromDay(day))
      d == DayWithinYear(day)
  IN CHOOSE m \in 0..11 :
       DaysBeforeMonth(m, leap) <= d /\ d < DaysBeforeMonth(m + 1, leap)

\* The day of the month, 1 .. 31.
DateFromDay(day) ==
  DayWithinYear(day)
    - DaysBeforeMonth(MonthFromDay(day), InLeapYear(YearFromDay(day))) + 1

\* 0 = Sunday .. 6 = Saturday; day 0 (1970-01-01) is a Thursday.
WeekDay(day) == (day + 4) % 7

\* MakeDay(year, month, date): month and date are not range-checked, they
\* roll over into the neighbouring months and years.
MakeDay(year, month, date) ==
  LET ym == year + (month \div 12)
      mn == month % 12
  IN DayFromYear(ym) + DaysBeforeMonth(mn, InLeapYear(ym)) + date - 1

(***************************************************************************)
(* Date objects' values and methods.                                       *)
(***************************************************************************)
TimeValue(day, ms) == [day |-> day, ms |-> ms]

\* new Date(year, monthIndex, day): local midnight.
NewDate(year, month, date) == TimeValue(MakeDay(year, month, date), 0)

getFullYear(t) == YearFromDay(t.day)
getMonth(t) == MonthFromDay(t.day)
getDate(t) == DateFromDay(t.day)
getDay(t) == WeekDay(t.day)
getUTCDate(t) == DateFromDay(t.day)
getUTCHours(t) == t.ms \div msPerHour
getMinutes(t) == (t.ms % msPerHour) \div msPerMinute
getSeconds(t) == (t.ms % msPerMinute) \div msPerSecond

\* date.setDate(n): the day of the month replaced, the time of day kept.
setDate(t, n) == TimeValue(MakeDay(getFullYear(t), getMonth(t), n), t.ms)

\* a <= b and a >= b on two Date objects compare their time values.
TimeLeq(a, b) == a.day < b.day \/ (a.day = b.day /\ a.ms <= b.ms)

\* Date.parse(date) on a Date object: the object is first converted to its
\* string form ("Sat Feb 03 2024 00:00:00 GMT+0000"), which carries whole
\* seconds only, and that string is parsed.
DateParse(t) == TimeValue(t.day, t.ms - (t.ms % msPerSecond))

\* Math.round((a - b) / 1000 / 60 / 60 / 24): the difference of two time
\* values in days, rounded to the nearest integer, halves upwards.
RoundDays(a, b) ==
  (a.day - b.day)
    + ((2 * (a.ms - b.ms) + millisecondsInOneDay) \div (2 * millisecondsInOneDay))

(***************************************************************************)
(* Strings are sequences of one-character strings.                         *)
(***************************************************************************)
Digits == <<"0", "1", "2", "3", "4", "5", "6", "7", "8", "9">>

RECURSIVE NumberToString(_)
\* n.toString() for an integer n >= 0.
NumberToString(n) ==
  IF n < 10 THEN <<Digits[n + 1]>>
  ELSE NumberToString(n \div 10) \o <<Digits[(n % 10) + 1]>>

RECURSIVE padStart(_, _, _)
padStart(s, len, ch) ==
  IF Len(s) >= len THEN s ELSE padStart(<<ch>> \o s, len, ch)

DigitValue(c) == CHOOSE i \in 0..9 : Digits[i + 1] = c

RECURSIVE StringToNumber(_)
\* Number(s) for a string of decimal digits.
StringToNumber(s) ==
  IF Len(s) = 0 THEN 0
  ELSE 10 * StringToNumber(SubSeq(s, 1, Len(s) - 1)) + DigitValue(s[Len(s)])

RECURSIVE split(_, _)
\* s.split(sep) for a one-character separator.
split(s, sep) ==
  IF \E i \in 1..Len(s) : s[i] = sep
  THEN LET i == CHOOSE j \in 1..Len(s) :
                  s[j] = sep /\ \A k \in 1..(j - 1) : s[k] # sep
       IN <<SubSeq(s, 1, i - 1)>> \o split(SubSeq(s, i + 1, Len(s)), sep)
  ELSE <<s>>

RECURSIVE join(_, _)
\* parts.join(sep).
join(parts, sep) ==
  IF Len(parts) = 0 THEN <<>>
  ELSE IF Len(parts) = 1 THEN parts[1]
  ELSE parts[1] \o <<sep>> \o join(Tail(parts), sep)

\* new Date(s) for s of the form YYYY-MM-DDTHH:mm:ss.sssZ.
ParseISO(s) ==
  TimeValue(
    MakeDay(StringToNumber(SubSeq(s, 1, 4)),
            StringToNumber(SubSeq(s, 6, 7)) - 1,
            StringToNumber(SubSeq(s, 9, 10))),
    StringToNumber(SubSeq(s, 12, 13)) * msPerHour
      + StringToNumber(SubSeq(s, 15, 16)) * msPerMinute
      + StringToNumber(SubSeq(s, 18, 19)) * msPerSecond
      + StringToNumber(SubSeq(s, 21, 23)))

(***************************************************************************)
(* The exported functions.                                                 *)
(***************************************************************************)
bibl == [n \in 0..6 |->
  CASE n = 0 -> 5 [] n = 1 -> 4 [] n = 2 -> 3 [] n = 3 -> 2
    [] n = 4 -> 1 [] n = 5 -> 7 [] n = 6 -> 6]

\* millisecondsInOneDay * bibl[NumberOfDay] + dateInMilliseconds, as a Date.
getNextFriday(date) ==
  LET NumberOfDay == getDay(date)
      dateInMilliseconds == DateParse(date)
  IN TimeValue(dateInMilliseconds.day + bibl[NumberOfDay], dateInMilliseconds.ms)

\* A faulty variant: the month taken as a 0-based index.
getCountDaysInMonthOffByOne(month, year) ==
  RoundDays(NewDate(year, month + 1, 1), NewDate(year, month, 1))

getCountDaysInMonth(month, year) ==
  LET timeStamp1 == NewDate(year, month, 1)
      timeStamp2 == NewDate(year, month - 1, 1)
  IN RoundDays(timeStamp1, timeStamp2)

\* A faulty variant: the days walked are those of month index `month`.
getCountWeekendsInMonthZeroBased(month, year) ==
  LET daysInMonth == getDate(NewDate(year, month, 0))
  IN Cardinality({i \in 1..daysInMonth :
                    LET currentDay == getDay(NewDate(year, month, i))
                    IN currentDay = 6 \/ currentDay = 0})

getCountWeekendsInMonth(month, year) ==
  LET daysInMonth == getDate(NewDate(year, month, 0))
  IN Cardinality({i \in 1..daysInMonth :
                    LET currentDay == getDay(NewDate(year, month - 1, i))
                    IN currentDay = 6 \/ currentDay = 0})

RECURSIVE SkipToWeekStart(_)
\* while (firstDayOfYear.getDay() > 4 && firstDayOfYear.getDay() < 1) ...
SkipToWeekStart(firstDayOfYear) ==
  IF getDay(firstDayOfYear) > 4 /\ getDay(firstDayOfYear) < 1
  THEN SkipToWeekStart(setDate(firstDayOfYear, getDate(firstDayOfYear) + 1))
  ELSE firstDayOfYear

getWeekNumberByDate(date) ==
  LET firstDayOfYear == SkipToWeekStart(NewDate(getFullYear(date), 0, 1))
      diffInDays == RoundDays(date, firstDayOfYear)
  IN (diffInDays \div 7) + 1

getQuarter(date) ==
  LET q1start == NewDate(getFullYear(date), 0, 1)
      q1end == NewDate(getFullYear(date), 2, 31)
      q2start == NewDate(getFullYear(date), 3, 1)
      q2end == NewDate(getFullYear(date), 5, 30)
      q3start == NewDate(getFullYear(date), 6, 1)
      q3end == NewDate(getFullYear(date), 8, 30)
  IN IF TimeLeq(q1start, date) /\ TimeLeq(date, q1end) THEN 1
     ELSE IF TimeLeq(q2start, date) /\ TimeLeq(date, q2end) THEN 2
     ELSE IF TimeLeq(q3start, date) /\ TimeLeq(date, q3end) THEN 3
     ELSE 4

isLeapYear(date) ==
  LET year == getFullYear(date)
  IN IF year % 4 = 0
     THEN IF year % 100 = 0
          THEN IF year % 400 = 0 THEN TRUE ELSE FALSE
          ELSE TRUE
     ELSE FALSE

\* `minutes > 0` compares the padded string as a number; the statement
\* hours.toString() has no effect.
formatDate(date) ==
  LET dateObject == ParseISO(date)
      day == NumberToString(getUTCDate(dateObject))
      month == NumberToString(getMonth(dateObject) + 1)
      year == NumberToString(getFullYear(dateObject))
      hours0 == getUTCHours(dateObject)
      minutes == padStart(NumberToString(getMinutes(dateObject)), 2, "0")
      seconds == padStart(NumberToString(getSeconds(dateObject)), 2, "0")
      hours == IF hours0 > 12 THEN hours0 - 12 ELSE hours0
      timeIndex ==
        IF hours0 > 12 THEN <<"P", "M">>
        ELSE IF hours = 12 /\ StringToNumber(minutes) > 0 THEN <<"P", "M">>
        ELSE <<"A", "M">>
  IN month \o <<"/">> \o day \o <<"/">> \o year \o <<",", " ">>
       \o NumberToString(hours) \o <<":">> \o minutes \o <<":">> \o seconds
       \o <<" ">> \o timeIndex

\* A faulty variant: <= for <.
isWorkDayInclusive(dayCounter, countWorkDays, countOffDays) ==
  LET n == countWorkDays + countOffDays
  IN IF n = 0 THEN FALSE
     ELSE (dayCounter % (IF n < 0 THEN -n ELSE n)) <= countWorkDays

\* dayCounter % (countWorkDays + countOffDays) < countWorkDays, dayCounter >= 0.
\* The remainder of a division by zero is NaN, and NaN < n is false; the
\* remainder by a negative divisor is the remainder by its absolute value.
isWorkDay(dayCounter, countWorkDays, countOffDays) ==
  LET n == countWorkDays + countOffDays
  IN IF n = 0 THEN FALSE
     ELSE (dayCounter % (IF n < 0 THEN -n ELSE n)) < countWorkDays

\* A faulty variant: day and month without padStart.
formattedDateNoPad(currentDate) ==
  join(<<NumberToString(getDate(currentDate)),
         NumberToString(getMonth(currentDate) + 1),
         NumberToString(getFullYear(currentDate))>>, "-")

formattedDate(currentDate) ==
  join(<<padStart(NumberToString(getDate(currentDate)), 2, "0"),
         padStart(NumberToString(getMonth(currentDate) + 1), 2, "0"),
         NumberToString(getFullYear(currentDate))>>, "-")

RECURSIVE WorkScheduleLoop(_, _, _, _, _, _)
\* The while loop of getWorkSchedule, from its current local variables.
WorkScheduleLoop(workSchedule, currentDate, dayCounter, endDate, countWorkDays, countOffDays) ==
  IF TimeLeq(currentDate, endDate)
  THEN WorkScheduleLoop(
         IF isWorkDay(dayCounter, countWorkDays, countOffDays)
         THEN Append(workSchedule, formattedDate(currentDate))
         ELSE workSchedule,
         setDate(currentDate, getDate(currentDate) + 1),
         dayCounter + 1, endDate, countWorkDays, countOffDays)
  ELSE workSchedule

getWorkSchedule(period, countWorkDays, countOffDays) ==
  LET s == split(period.start, "-")
      e == split(period.end, "-")
      startDate == NewDate(StringToNumber(s[3]), StringToNumber(s[2]) - 1,
                           StringToNumber(s[1]))
      endDate == NewDate(StringToNumber(e[3]), StringToNumber(e[2]) - 1,
                         StringToNumber(e[1]))
  IN WorkScheduleLoop(<<>>, startDate, 0, endDate, countWorkDays, countOffDays)

(***************************************************************************)
(* The inputs the calls are tried on.                                      *)
(***************************************************************************)
\* n written with exactly `width` decimal digits.
Fixed(n, width) ==
  [i \in 1..width |-> Digits[((n \div (10 ^ (width - i))) % 10) + 1]]

\* A day as a 'DD-MM-YYYY' string, the form of a DatePeriod's start and end.
DDMMYYYY(day) ==
  Fixed(DateFromDay(day), 2) \o <<"-">> \o Fixed(MonthFromDay(day) + 1, 2)
    \o <<"-">> \o Fixed(YearFromDay(day), 4)

\* A time value as a 'YYYY-MM-DDTHH:mm:ss.sssZ' string.
ISOString(t) ==
  Fixed(YearFromDay(t.day), 4) \o <<"-">> \o Fixed(MonthFromDay(t.day) + 1, 2)
    \o <<"-">> \o Fixed(DateFromDay(t.day), 2) \o <<"T">>
    \o Fixed(t.ms \div msPerHour, 2) \o <<":">>
    \o Fixed((t.ms % msPerHour) \div msPerMinute, 2) \o <<":">>
    \o Fixed((t.ms % msPerMinute) \div msPerSecond, 2) \o <<".">>
    \o Fixed(t.ms % msPerSecond, 3) \o <<"Z">>

NextFridaySpan == 13
F13Span == 150
YearSpan == 4
MonthSlack == 2
WeekSpan == 20
QuarterSpan == 365
StartSpan == 4
MaxPeriodLen == 15
MaxRun == 3
MinRun == 3

\* Times of day, in milliseconds: midnight, half a second past it, a second
\* before noon, noon, 15:20:07.250 and the last millisecond of the day.
TimesOfDay ==
  {0, 500, 12 * msPerHour - msPerSecond, 12 * msPerHour,
   15 * msPerHour + 20 * msPerMinute + 7 * msPerSecond + 250,
   millisecondsInOneDay - 1}

NextFridayDates ==
  {TimeValue(MakeDay(2024, 1, 3) + k, ms) : k \in 0..NextFridaySpan, ms \in TimesOfDay}

F13Dates ==
  {TimeValue(MakeDay(2024, 7, 1) + k, ms) :
     k \in 0..F13Span, ms \in {0, 15 * msPerHour + 500}}

Years == {1900, 2000, 2100} \cup (2021..(2021 + YearSpan))
Months == (1 - MonthSlack)..(12 + MonthSlack)

WeekDates ==
  {TimeValue(MakeDay(y, 0, 1) + k, ms) :
     y \in 2021..(2021 + YearSpan), k \in 0..WeekSpan, ms \in {0, 12 * msPerHour}}
  \cup {TimeValue(MakeDay(y, 11, 28) + k, 0) : y \in 2021..(2021 + YearSpan), k \in 0..3}

QuarterDates ==
  {TimeValue(MakeDay(2024, 0, 1) + k, ms) :
     k \in 0..QuarterSpan, ms \in {0, 12 * msPerHour, millisecondsInOneDay - 1}}

FormatDates ==
  {TimeValue(day, h * msPerHour + m * msPerMinute + sec * msPerSecond) :
     day \in {MakeDay(2024, 1, 1), MakeDay(2010, 11, 15)},
     h \in 0..23, m \in {0, 20, 59}, sec \in {0, 7}}

ScheduleStarts ==
  {MakeDay(2024, 0, 1), MakeDay(2023, 11, 25)}
    \cup {MakeDay(2024, 1, 20) + k : k \in 0..StartSpan}
RunLengths == (0 - MinRun)..MaxRun

(***************************************************************************)
(* Date objects live on a heap: heap[r] is the time value of object r.     *)
(***************************************************************************)
\* A faulty variant: the same object instead of a copy.
AliasDate(h, r) == [heap |-> h, ref |-> r]

\* new Date(d) for a Date object or a time value d: a new object.
CopyDate(h, r) == [heap |-> Append(h, h[r]), ref |-> Len(h) + 1]

VARIABLES
  pc,         \* "idle", "loop1", "loop2" (inside getNextFridayThe13th), "done"
  fn,         \* the function called
  arg,        \* its arguments
  ret,        \* its return value
  thrown,     \* the error it threw, "none" when it returned
  heap,       \* the Date objects of the call in progress
  date,       \* getNextFridayThe13th: the caller's Date object
  nextFriday, \* getNextFridayThe13th: currentDay and its alias nextFriday
  result      \* getNextFridayThe13th: result

vars == <<pc, fn, arg, ret, thrown, heap, date, nextFriday, result>>

locals == <<heap, date, nextFriday, result>>

Init ==
  /\ pc = "idle"
  /\ fn = "none"
  /\ arg = "none"
  /\ ret = "none"
  /\ thrown = "none"
  /\ heap = <<>>
  /\ date = 0
  /\ nextFriday = 0
  /\ result = 0

\* Each of these functions runs from its call to its return statement in one
\* step; none of them has a throw statement.
Call_getNextFriday ==
  \E d \in NextFridayDates :
    /\ pc = "idle"
    /\ pc' = "done"
    /\ fn' = "getNextFriday"
    /\ arg' = d
    /\ ret' = getNextFriday(d)
    /\ thrown' = "none"
    /\ UNCHANGED locals

Call_getCountDaysInMonth ==
  \E month \in Months, year \in Years :
    /\ pc = "idle"
    /\ pc' = "done"
    /\ fn' = "getCountDaysInMonth"
    /\ arg' = [month |-> month, year |-> year]
    /\ ret' = getCountDaysInMonth(month, year)
    /\ thrown' = "none"
    /\ UNCHANGED locals

Call_getCountWeekendsInMonth ==
  \E month \in Months, year \in Years :
    /\ pc = "idle"
    /\ pc' = "done"
    /\ fn' = "getCountWeekendsInMonth"
    /\ arg' = [month |-> month, year |-> year]
    /\ ret' = getCountWeekendsInMonth(month, year)
    /\ thrown' = "none"
    /\ UNCHANGED locals

Call_getWeekNumberByDate ==
  \E d \in WeekDates :
    /\ pc = "idle"
    /\ pc' = "done"
    /\ fn' = "getWeekNumberByDate"
    /\ arg' = d
    /\ ret' = getWeekNumberByDate(d)
    /\ thrown' = "none"
    /\ UNCHANGED locals

Call_getQuarter ==
  \E d \in QuarterDates :
    /\ pc = "idle"
    /\ pc' = "done"
    /\ fn' = "getQuarter"
    /\ arg' = d
    /\ ret' = getQuarter(d)
    /\ thrown' = "none"
    /\ UNCHANGED locals

Call_isLeapYear ==
  \E year \in Years :
    /\ pc = "idle"
    /\ pc' = "done"
    /\ fn' = "isLeapYear"
    /\ arg' = NewDate(year, 2, 1)
    /\ ret' = isLeapYear(NewDate(year, 2, 1))
    /\ thrown' = "none"
    /\ UNCHANGED locals

Call_formatDate ==
  \E d \in FormatDates :
    /\ pc = "idle"
    /\ pc' = "done"
    /\ fn' = "formatDate"
    /\ arg' = ISOString(d)
    /\ ret' = formatDate(ISOString(d))
    /\ thrown' = "none"
    /\ UNCHANGED locals

Call_getWorkSchedule ==
  \E start \in ScheduleStarts, len \in 0..MaxPeriodLen,
     countWorkDays \in RunLengths, countOffDays \in RunLengths :
    LET period == [start |-> DDMMYYYY(start), end |-> DDMMYYYY(start + len)]
    IN /\ pc = "idle"
       /\ pc' = "done"
       /\ fn' = "getWorkSchedule"
       /\ arg' = [period |-> period, countWorkDays |-> countWorkDays,
                  countOffDays |-> countOffDays, startDay |-> start,
                  endDay |-> start + len]
       /\ ret' = getWorkSchedule(period, countWorkDays, countOffDays)
       /\ thrown' = "none"
       /\ UNCHANGED locals

\* getNextFridayThe13th, lines 265-268: currentDay is a copy of date,
\* nextFriday is the same object as currentDay, and result is a new object
\* holding what nextFriday.setDate(nextFriday.getDate() + 1) returned.
Call_getNextFridayThe13th ==
  \E d \in F13Dates :
    LET currentDay == CopyDate(<<d>>, 1)
        moved == [currentDay.heap EXCEPT ![currentDay.ref] =
                    setDate(@, getDate(@) + 1)]
        res == CopyDate(moved, currentDay.ref)
    IN /\ pc = "idle"
       /\ pc' = "loop1"
       /\ fn' = "getNextFridayThe13th"
       /\ arg' = d
       /\ date' = 1
       /\ nextFriday' = currentDay.ref
       /\ heap' = res.heap
       /\ result' = res.ref
       /\ UNCHANGED <<ret, thrown>>

\* while (nextFriday.getDay() !== 5) nextFriday.setDate(nextFriday.getDate() + 1)
F13_Loop1 ==
  /\ pc = "loop1"
  /\ IF getDay(heap[nextFriday]) # 5
     THEN /\ heap' = [heap EXCEPT ![nextFriday] = setDate(@, getDate(@) + 1)]
          /\ pc' = "loop1"
     ELSE /\ heap' = heap
          /\ pc' = "loop2"
  /\ UNCHANGED <<fn, arg, ret, thrown, date, nextFriday, result>>

\* while (result.getDay() !== 5 || result.getDate() !== 13)
\*   result = new Date(nextFriday.setDate(nextFriday.getDate() + 7))
F13_Loop2 ==
  /\ pc = "loop2"
  /\ getDay(heap[result]) # 5 \/ getDate(heap[result]) # 13
  /\ LET moved == [heap EXCEPT ![nextFriday] = setDate(@, getDate(@) + 7)]
         res == CopyDate(moved, nextFriday)
     IN /\ heap' = res.heap
        /\ result' = res.ref
  /\ UNCHANGED <<pc, fn, arg, ret, thrown, date, nextFriday>>

\* return result
F13_Return ==
  /\ pc = "loop2"
  /\ ~(getDay(heap[result]) # 5 \/ getDate(heap[result]) # 13)
  /\ pc' = "done"
  /\ ret' = heap[result]
  /\ UNCHANGED <<fn, arg, thrown, heap, date, nextFriday, result>>

\* The caller drops the call's values and is ready for the next call.
Forget ==
  /\ pc = "done"
  /\ pc' = "idle"
  /\ fn' = "none"
  /\ arg' = "none"
  /\ ret' = "none"
  /\ thrown' = "none"
  /\ heap' = <<>>
  /\ date' = 0
  /\ nextFriday' = 0
  /\ result' = 0

Next ==
  \/ Call_getNextFriday
  \/ Call_getCountDaysInMonth
  \/ Call_getCountWeekendsInMonth
  \/ Call_getWeekNumberByDate
  \/ Call_getQuarter
  \/ Call_isLeapYear
  \/ Call_formatDate
  \/ Call_getWorkSchedule
  \/ Call_getNextFridayThe13th
  \/ F13_Loop1
  \/ F13_Loop2
  \/ F13_Return
  \/ Forget

Spec == Init /\ [][Next]_vars

(***************************************************************************)
(* The calendar as the properties below state it.                          *)
(***************************************************************************)
\* The length of month 1 .. 12 of a year.
CalendarMonthLength(month, year) ==
  IF month \in {4, 6, 9, 11} THEN 30
  ELSE IF month # 2 THEN 31
  ELSE IF year % 4 = 0 /\ (year % 100 # 0 \/ year % 400 = 0) THEN 29
  ELSE 28

IsFridayThe13th(day) == WeekDay(day) = 5 /\ DateFromDay(day) = 13

\* ISO-8601: weeks start on Monday, and a week belongs to the year that
\* holds its Thursday; week 1 is the one with the year's first Thursday.
ISOWeekday(day) == ((day + 3) % 7) + 1
ISOThursday(day) == day - ISOWeekday(day) + 4
ISOWeek(day) ==
  ((ISOThursday(day) - DayFromYear(YearFromDay(ISOThursday(day)))) \div 7) + 1

Returned(name) == pc = "done" /\ fn = name

(***************************************************************************)
(* C1: getNextFridayThe13th(d) returns the smallest date strictly after d  *)
(* that is a Friday and the 13th of its month: the result is a Friday the  *)
(* 13th, it is later than d, and no Friday the 13th lies strictly between  *)
(* d and the result.                                                       *)
(***************************************************************************)
C1_NextFridayThe13thIsTheSmallest ==
  Returned("getNextFridayThe13th") =>
    /\ IsFridayThe13th(ret.day)
    /\ ret.day > arg.day
    /\ \A day \in (arg.day + 1)..(ret.day - 1) : ~IsFridayThe13th(day)

(***************************************************************************)
(* C10: getNextFridayThe13th never changes the caller's Date object: at    *)
(* every step of the call and after its return the object holds the time   *)
(* value it was passed with, and the returned object is not that object.   *)
(***************************************************************************)
C10_CallerDateNotMutated ==
  fn = "getNextFridayThe13th" =>
    /\ heap[date] = arg
    /\ nextFriday # date
    /\ result # date

\* Both loops have moved the working date, several results were allocated,
\* and the call has returned.
C10_Witness ==
  /\ Returned("getNextFridayThe13th")
  /\ Len(heap) > 5
  /\ getDay(arg) \notin {4, 5}
  /\ heap[nextFriday] # arg
  /\ heap[date] = arg

(***************************************************************************)
(* C2: for start <= end and positive workDays and offDays, getWorkSchedule *)
(* returns, in increasing date order and without duplicates, exactly the   *)
(* days of the period (both ends included) whose offset k from start has   *)
(* (k mod (workDays + offDays)) < workDays, each as a zero-padded          *)
(* DD-MM-YYYY string.                                                      *)
(***************************************************************************)
\* The offsets 0 .. last that `Working` selects, in increasing order.
SelectedOffsets(last, Working(_)) ==
  SelectSeq([i \in 1..(last + 1) |-> i - 1], Working)

\* The days at those offsets from `start`, written DD-MM-YYYY.
ScheduleOf(start, last, Working(_)) ==
  LET ks == SelectedOffsets(last, Working)
  IN [i \in 1..Len(ks) |-> DDMMYYYY(start + ks[i])]

C2_WorkScheduleIsTheWorkingDays ==
  (Returned("getWorkSchedule") /\ arg.countWorkDays > 0 /\ arg.countOffDays > 0) =>
    LET Working(k) == (k % (arg.countWorkDays + arg.countOffDays)) < arg.countWorkDays
    IN ret = ScheduleOf(arg.startDay, arg.endDay - arg.startDay, Working)

\* The documented example: 01-01-2024 .. 15-01-2024, 1 working day, 3 days off.
C2_Witness ==
  /\ Returned("getWorkSchedule")
  /\ arg.period.start = <<"0", "1", "-", "0", "1", "-", "2", "0", "2", "4">>
  /\ arg.period.end = <<"1", "5", "-", "0", "1", "-", "2", "0", "2", "4">>
  /\ arg.countWorkDays = 1
  /\ arg.countOffDays = 3
  /\ ret = << <<"0", "1", "-", "0", "1", "-", "2", "0", "2", "4">>,
              <<"0", "5", "-", "0", "1", "-", "2", "0", "2", "4">>,
              <<"0", "9", "-", "0", "1", "-", "2", "0", "2", "4">>,
              <<"1", "3", "-", "0", "1", "-", "2", "0", "2", "4">> >>

(***************************************************************************)
(* C3: getWorkSchedule called with workDays or offDays that is zero or     *)
(* negative fails with an InvalidArgument error and returns no schedule.   *)
(***************************************************************************)
NonPositiveRun ==
  Returned("getWorkSchedule") /\ (arg.countWorkDays <= 0 \/ arg.countOffDays <= 0)

C3_NonPositiveRunIsRejected == NonPositiveRun => thrown = "InvalidArgument"

(***************************************************************************)
(* C3, amended: with workDays or offDays zero or negative getWorkSchedule  *)
(* does not fail; it returns the days of the period whose offset k has     *)
(* workDays + offDays # 0 and (k mod |workDays + offDays|) < workDays, so  *)
(* no day at all when workDays <= 0 or workDays + offDays = 0, and every   *)
(* day when workDays > 0 and workDays + offDays > 0.                       *)
(***************************************************************************)
C3_NonPositiveRunReturnsSchedule ==
  NonPositiveRun =>
    LET w == arg.countWorkDays
        n == arg.countWorkDays + arg.countOffDays
        last == arg.endDay - arg.startDay
        Working(k) == n # 0 /\ (k % (IF n < 0 THEN 0 - n ELSE n)) < w
        Every(k) == TRUE
    IN /\ thrown = "none"
       /\ ret = ScheduleOf(arg.startDay, last, Working)
       /\ (w <= 0 \/ n = 0) => ret = <<>>
       /\ (w > 0 /\ n > 0) => ret = ScheduleOf(arg.startDay, last, Every)

\* 1 working day and -3 days off: every second day of a period of 3 or more.
C3_Witness ==
  /\ NonPositiveRun
  /\ arg.countWorkDays = 1
  /\ arg.countOffDays = 0 - 3
  /\ arg.endDay - arg.startDay >= 2
  /\ Len(ret) >= 2
  /\ ret[2] = DDMMYYYY(arg.startDay + 2)

(***************************************************************************)
(* C4: getQuarter returns the quarter the date's month lies in, for any    *)
(* day of the month and any time of day: floor(monthIndex / 3) + 1.        *)
(***************************************************************************)
C4_QuarterFollowsTheMonth ==
  Returned("getQuarter") => ret = (MonthFromDay(arg.day) \div 3) + 1

(***************************************************************************)
(* C5: getWeekNumberByDate returns the ISO-8601 week number: weeks start   *)
(* on Monday and week 1 is the week with the year's first Thursday.        *)
(***************************************************************************)
C5_WeekNumberIsISO ==
  Returned("getWeekNumberByDate") => ret = ISOWeek(arg.day)

(***************************************************************************)
(* C6: getNextFriday(d) returns a Friday between 1 and 7 whole days after  *)
(* d, at the same time of day; the days added are 5, 4, 3, 2, 1, 7, 6 for  *)
(* d on a Sunday .. Saturday, so 7 and never 0 when d is a Friday.         *)
(***************************************************************************)
C6_NextFridayWholeDaysLater ==
  Returned("getNextFriday") =>
    /\ WeekDay(ret.day) = 5
    /\ ret.ms = arg.ms
    /\ ret.day - arg.day \in 1..7
    /\ ret.day - arg.day = <<5, 4, 3, 2, 1, 7, 6>>[WeekDay(arg.day) + 1]

(***************************************************************************)
(* C7: formatDate writes the time in 12-hour form: for the hour H of the   *)
(* day, the hour field is 12 for H = 0 and H = 12, H for 1 .. 11 and       *)
(* H - 12 for 13 .. 23, without a leading zero, and the suffix is AM when  *)
(* H < 12 and PM when H >= 12, whatever the minutes and seconds.           *)
(***************************************************************************)
FirstIndexOf(s, ch) ==
  CHOOSE i \in 1..Len(s) : s[i] = ch /\ \A j \in 1..(i - 1) : s[j] # ch

\* The hour field of 'M/D/YYYY, h:mm:ss AM': between ", " and the first ":".
HourField(s) == SubSeq(s, FirstIndexOf(s, ",") + 2, FirstIndexOf(s, ":") - 1)
Suffix(s) == SubSeq(s, Len(s) - 1, Len(s))

C7_TwelveHourClock ==
  Returned("formatDate") =>
    LET H == StringToNumber(SubSeq(arg, 12, 13))
    IN /\ HourField(ret) =
            NumberToString(IF H % 12 = 0 THEN 12 ELSE H % 12)
       /\ Suffix(ret) = (IF H < 12 THEN <<"A", "M">> ELSE <<"P", "M">>)

(***************************************************************************)
(* C8: for a month in 1 .. 12, getCountDaysInMonth(month, year) is the     *)
(* calendar length of the month, and for February it is 29 exactly when    *)
(* isLeapYear holds of a date of that year.                                *)
(***************************************************************************)
C8_DaysInMonthIsCalendarLength ==
  (Returned("getCountDaysInMonth") /\ arg.month \in 1..12) =>
    /\ ret = CalendarMonthLength(arg.month, arg.year)
    /\ arg.month = 2 => (ret = 29 <=> isLeapYear(NewDate(arg.year, 0, 1)))
    /\ arg.month = 2 => ret \in {28, 29}

C8_Witness ==
  /\ Returned("getCountDaysInMonth")
  /\ arg = [month |-> 2, year |-> 2000]
  /\ ret = 29
  /\ isLeapYear(NewDate(2000, 0, 1))
  /\ getCountDaysInMonth(2, 1900) = 28
  /\ ~isLeapYear(NewDate(1900, 0, 1))

(***************************************************************************)
(* C9: getCountDaysInMonth and getCountWeekendsInMonth called with a month *)
(* outside 1 .. 12 fail with an InvalidArgument error.                     *)
(***************************************************************************)
MonthOutOfRange ==
  /\ pc = "done"
  /\ fn \in {"getCountDaysInMonth", "getCountWeekendsInMonth"}
  /\ arg.month \notin 1..12

C9_MonthOutOfRangeIsRejected == MonthOutOfRange => thrown = "InvalidArgument"

(***************************************************************************)
(* C9, amended: called with a month outside 1 .. 12 the two functions do   *)
(* not fail; the month rolls over into the neighbouring years (month 0 is  *)
(* December of year - 1, month 13 is January of year + 1), and they return *)
(* the number of days and of Saturdays and Sundays of that month.          *)
(***************************************************************************)
C9_MonthOutOfRangeRollsOver ==
  MonthOutOfRange =>
    LET y == arg.year + ((arg.month - 1) \div 12)
        m == ((arg.month - 1) % 12) + 1
        len == CalendarMonthLength(m, y)
    IN /\ thrown = "none"
       /\ fn = "getCountDaysInMonth" => ret = len
       /\ fn = "getCountWeekendsInMonth" =>
            ret = Cardinality({d \in 1..len :
                     WeekDay(MakeDay(y, m - 1, d)) \in {0, 6}})

\* Month 13 of 2023 is January 2024, which has 8 weekend days.
C9_Witness ==
  /\ MonthOutOfRange
  /\ fn = "getCountWeekendsInMonth"
  /\ arg = [month |-> 13, year |-> 2023]
  /\ ret = 8
====
